---- MODULE Spec2Model ----
(***************************************************************************)
(* State-machine model of the IPython kernel client in                     *)
(* src/ipython_mcp/server.py: the module-level connection state, the       *)
(* table of non-blocking executions, the IOPub drain pass and the tool     *)
(* handlers (connect_to_kernel, execute_code, execute_code_nonblocking,    *)
(* check_execution, kernel_status, disconnect_kernel,                      *)
(* interrupt_execution).  The kernel is the environment: it publishes      *)
(* multipart messages on the IOPub channel.                                *)
(***************************************************************************)
EXTENDS Integers, Sequences, FiniteSets, TLC

VARIABLES
    kernel_connection,   \* server.py:28  the loaded connection descriptor, or none
    context,             \* server.py:29  the ZMQ context object, or none
    shell_socket,        \* server.py:30
    iopub_socket,        \* server.py:31
    control_socket,      \* server.py:32
    pending_executions,  \* server.py:39  msg_id -> accumulated execution state
    iopubQ,              \* messages published by the kernel, queued on iopub_socket
    nextId,              \* the next value uuid.uuid4() hands out as a msg_id
    delivered,           \* number of messages the kernel has published so far
    ret,                 \* what the last tool call returned (or how it ended)
    leaked,              \* channels whose socket object was dropped while still open
    terminal_ids,        \* ids for which check_execution returned a terminal outcome
    idle_published,      \* ids whose idle status was published on the current iopub socket
    connected_ok,        \* a connect_to_kernel call succeeded since the last disconnect
    pc,                  \* "ready", or "waiting" while execute_code is in its wait loop
    wl                   \* the locals of execute_code's wait loop

conn_vars == <<kernel_connection, context, shell_socket, iopub_socket, control_socket, leaked, connected_ok>>
wait_vars == <<pc, wl>>
vars == <<kernel_connection, context, shell_socket, iopub_socket, control_socket,
          pending_executions, iopubQ, nextId, delivered, ret, leaked, terminal_ids,
          idle_published, connected_ok, pc, wl>>

----------------------------------------------------------------------------
(* Bounds of the model *)

\* msg_ids uuid4 hands out in one run
MaxIds == 2
\* messages the kernel publishes in one run
MaxDeliver == 2
\* messages that can sit unread on the iopub socket
MaxQueue == 2
\* distinct non-empty text payloads per request
MaxText == 1
\* kernel endpoints (and keys) a connection file can name
MaxEndpoints == 2
\* required keys a connection file of the model can lack
MaxMissing == 1
\* characters of a code string
MaxCodeLen == 2
\* messages the kernel publishes in one run of the reply-order specification
MaxReplies == 3

(* Program constants *)

\* server.py:355  while not execution_done and timeout_count < 100
TimeoutLimit == 100
\* server.py:92, 358  a multipart message needs 7 frames
FrameCount == 7

----------------------------------------------------------------------------
(* Objects held by the module-level globals.  A global is None (obj = FALSE)
   or refers to an object; a closed socket object is still a truthy object.
   `cur` tells whether the object was created by the latest connect attempt
   that got as far as creating objects. *)

NoSocket == [obj |-> FALSE, open |-> FALSE, bound |-> FALSE, ep |-> 0, cur |-> FALSE]
NoContext == [obj |-> FALSE, live |-> FALSE, cur |-> FALSE]
NoConnection == [obj |-> FALSE, ep |-> 0, present |-> {}, bad |-> "none"]

\* context.socket(...) followed by socket.connect(addr): connect raising leaves
\* the socket open with no endpoint
NewSocket(ep, connected) ==
    [obj |-> TRUE, open |-> TRUE, bound |-> connected, ep |-> ep, cur |-> TRUE]

\* zmq.Context()
NewContext == [obj |-> TRUE, live |-> TRUE, cur |-> TRUE]

\* Python truthiness of the globals: `if shell_socket:` / `if not kernel_connection`
Truthy(x) == x.obj

\* a dict loaded from the connection file is falsy only when it has no key at all
TruthyConnection(kc) == kc.obj /\ kc.present # {}

\* `if s: s.close()`
CloseIfSet(s) == IF Truthy(s) THEN [s EXCEPT !.open = FALSE] ELSE s

\* `if context: context.term()`
TermIfSet(c) == IF Truthy(c) THEN [c EXCEPT !.live = FALSE] ELSE c

----------------------------------------------------------------------------
(* Connection files *)

required_fields ==
    <<"ip", "shell_port", "iopub_port", "stdin_port", "control_port", "hb_port", "key">>

RequiredSet == {required_fields[i] : i \in 1..Len(required_fields)}

\* [field for field in required_fields if field not in kernel_connection]
IsMissing(kc, field) == field \notin kc.present

\* a validation that does not look for 'key'
missing_fields_nokey(kc) ==
    SelectSeq(required_fields, LAMBDA field : field # "key" /\ IsMissing(kc, field))

missing_fields(kc) ==
    SelectSeq(required_fields, LAMBDA field : IsMissing(kc, field))

Channels == {"shell", "iopub", "control"}

\* The descriptors a connection file can hold: the endpoint (and key) it names,
\* the keys it has, and the channel (if any) whose address zmq refuses to connect.
Descriptors ==
    { [obj |-> TRUE, ep |-> e, present |-> RequiredSet, bad |-> b] :
        e \in 1..MaxEndpoints, b \in {"none"} \cup Channels }
    \cup
    { [obj |-> TRUE, ep |-> e, present |-> RequiredSet \ m, bad |-> "none"] :
        e \in 1..MaxEndpoints,
        m \in {s \in SUBSET RequiredSet : Cardinality(s) <= MaxMissing} }

\* What connect_to_kernel finds at the resolved path
ConnectionFiles ==
    {[kind |-> "absent", desc |-> NoConnection], [kind |-> "garbled", desc |-> NoConnection]}
    \cup {[kind |-> "json", desc |-> d] : d \in Descriptors}

----------------------------------------------------------------------------
(* Return values of the tool handlers *)

\* besides the outcome: `sent` is the socket the call sent on, `envelope` the
\* frames it passed to send_multipart, `code` the code string it sent and
\* `discarded` the number of messages its drain pass dropped at the lookup
Ret(op, kind) ==
    [op |-> op, kind |-> kind, id |-> 0, out |-> <<>>, missing |-> <<>>,
     channel |-> "none", sent |-> "none", ep |-> 0, envelope |-> <<>>,
     code |-> <<>>, discarded |-> 0]

----------------------------------------------------------------------------
(* connect_to_kernel, server.py:208-279 *)

Globals ==
    [context |-> context, shell_socket |-> shell_socket,
     iopub_socket |-> iopub_socket, control_socket |-> control_socket]

\* when a connect attempt starts creating objects, the ones that exist are
\* those of an earlier attempt
Earlier(g) ==
    [context |-> [g.context EXCEPT !.cur = FALSE],
     shell_socket |-> [g.shell_socket EXCEPT !.cur = FALSE],
     iopub_socket |-> [g.iopub_socket EXCEPT !.cur = FALSE],
     control_socket |-> [g.control_socket EXCEPT !.cur = FALSE]]

\* a reconnect that leaves the previous iopub socket open
CloseExisting_iopub_kept(g) ==
    [context |-> TermIfSet(g.context),
     shell_socket |-> CloseIfSet(g.shell_socket),
     iopub_socket |-> g.iopub_socket,
     control_socket |-> CloseIfSet(g.control_socket)]

\* server.py:238-246  close existing connections if any
CloseExisting(g) ==
    [context |-> TermIfSet(g.context),
     shell_socket |-> CloseIfSet(g.shell_socket),
     iopub_socket |-> CloseIfSet(g.iopub_socket),
     control_socket |-> CloseIfSet(g.control_socket)]

\* server.py:248-276  create the context and the three sockets in order; the
\* first connect that raises returns at once, leaving what was created so far.
\* `dropped` are the objects the assignments overwrote.
OpenChannels(g, kc) ==
    LET g1 == [g EXCEPT !.context = NewContext,
                        !.shell_socket = NewSocket(kc.ep, kc.bad # "shell")]
        g2 == [g1 EXCEPT !.iopub_socket = NewSocket(kc.ep, kc.bad # "iopub")]
        g3 == [g2 EXCEPT !.control_socket = NewSocket(kc.ep, kc.bad # "control")]
    IN  IF kc.bad = "shell"
        THEN [g |-> g1, failed |-> "shell", dropped |-> {"shell"}]
        ELSE IF kc.bad = "iopub"
        THEN [g |-> g2, failed |-> "iopub", dropped |-> {"shell", "iopub"}]
        ELSE IF kc.bad = "control"
        THEN [g |-> g3, failed |-> "control", dropped |-> Channels]
        ELSE [g |-> g3, failed |-> "none", dropped |-> Channels]

SocketOf(g, ch) ==
    IF ch = "shell" THEN g.shell_socket
    ELSE IF ch = "iopub" THEN g.iopub_socket
    ELSE g.control_socket

\* a connect that forgets the stored descriptor when it finds no usable file
LoadDescriptor_or_forget(f, kc) ==
    IF f.kind = "json" THEN f.desc ELSE NoConnection

\* server.py:226-230  kernel_connection after the existence test and json.load:
\* the return for a missing file and the raise of json.load both come before
\* the assignment
LoadDescriptor(f, kc) ==
    IF f.kind = "json" THEN f.desc ELSE kc

connect_to_kernel(f) ==
    /\ pc = "ready"
    /\ IF f.kind = "absent"
       THEN \* server.py:226-227
            /\ ret' = Ret("connect", "FileNotFound")
            /\ kernel_connection' = LoadDescriptor(f, kernel_connection)
            /\ UNCHANGED <<context, shell_socket, iopub_socket, control_socket,
                           leaked, connected_ok, iopubQ, idle_published>>
       ELSE IF f.kind = "garbled"
       THEN \* json.load raises before the assignment; server.py:278-279
            /\ ret' = Ret("connect", "ConnectFailed")
            /\ kernel_connection' = LoadDescriptor(f, kernel_connection)
            /\ UNCHANGED <<context, shell_socket, iopub_socket, control_socket,
                           leaked, connected_ok, iopubQ, idle_published>>
       ELSE LET kc == LoadDescriptor(f, kernel_connection)
                missing == missing_fields(kc)
                closed == CloseExisting(Earlier(Globals))
                opened == OpenChannels(closed, kc)
            IN  /\ kernel_connection' = kc     \* server.py:230
                /\ IF missing # <<>>
                   THEN \* server.py:235-236
                        /\ ret' = [Ret("connect", "InvalidDescriptor") EXCEPT !.missing = missing]
                        /\ UNCHANGED <<context, shell_socket, iopub_socket, control_socket,
                                       leaked, connected_ok, iopubQ, idle_published>>
                   ELSE /\ context' = opened.g.context
                        /\ shell_socket' = opened.g.shell_socket
                        /\ iopub_socket' = opened.g.iopub_socket
                        /\ control_socket' = opened.g.control_socket
                        /\ leaked' = leaked
                              \cup {ch \in opened.dropped : SocketOf(closed, ch).open}
                              \cup (IF closed.context.live THEN {"context"} ELSE {})
                        /\ iopubQ' = <<>>
                        /\ idle_published' = {}
                        /\ IF opened.failed # "none"
                           THEN /\ ret' = [Ret("connect", "BindError") EXCEPT !.channel = opened.failed]
                                /\ UNCHANGED connected_ok
                           ELSE /\ ret' = [Ret("connect", "Connected") EXCEPT !.ep = kc.ep]
                                /\ connected_ok' = TRUE
    /\ UNCHANGED <<pending_executions, nextId, delivered, terminal_ids, wait_vars>>

----------------------------------------------------------------------------
(* disconnect_kernel, server.py:595-627 *)

\* a disconnect that closes a socket but keeps the global referring to it
CloseAndClear_kept(s) == CloseIfSet(s)

\* server.py:610-621  `if s: s.close(); s = None`: the global stops referring to
\* the (now closed) object
CloseAndClear(s) == NoSocket

disconnect_kernel ==
    /\ pc = "ready"
    /\ shell_socket' = CloseAndClear(shell_socket)
    /\ iopub_socket' = CloseAndClear(iopub_socket)
    /\ control_socket' = CloseAndClear(control_socket)
    /\ context' = NoContext
    /\ kernel_connection' = NoConnection        \* server.py:623
    /\ connected_ok' = FALSE
    /\ iopubQ' = <<>>
    /\ idle_published' = {}
    /\ ret' = Ret("disconnect", "Disconnected")
    /\ UNCHANGED <<pending_executions, nextId, delivered, terminal_ids, leaked, wait_vars>>

----------------------------------------------------------------------------
(* kernel_status, server.py:576-592 *)

\* The value kernel_status() returns in the current state; a descriptor without
\* 'ip' or 'shell_port' makes the f-string raise KeyError, which nothing catches.
StatusOf(kc) ==
    IF ~TruthyConnection(kc)
    THEN Ret("status", "NotConnected")
    ELSE IF IsMissing(kc, "ip") \/ IsMissing(kc, "shell_port")
    THEN Ret("status", "Fault")
    ELSE [Ret("status", "Connected") EXCEPT !.ep = kc.ep]

kernel_status ==
    /\ pc = "ready"
    /\ ret' = StatusOf(kernel_connection)
    /\ UNCHANGED <<conn_vars, pending_executions, iopubQ, nextId, delivered,
                   terminal_ids, idle_published, wait_vars>>

----------------------------------------------------------------------------
(* Messages the kernel publishes on IOPub *)

\* a text payload: the request it was produced for, which text it is (0: no
\* characters besides white space) and its form: "plain", "padded" (white
\* space around it), "notice" (the very characters of the notice execute_code
\* returns for a timeout without output), or for an error "traceback" (ename,
\* evalue and coloured traceback lines); the text/plain of an execute_result
\* is "" or the "repr" of a value
NoText == <<0, 0, "plain">>

\* Python truthiness of a str: false only for ""
IsEmptyText(t) == t[2] = 0 /\ t[3] = "plain"

Msg(parent, type, text, state) ==
    [len |-> FrameCount, json_ok |-> TRUE, parent |-> parent, msg_type |-> type,
     text |-> text, execution_state |-> state]

\* fewer than 7 frames
ShortMsg == [Msg(0, "status", NoText, "busy") EXCEPT !.len = FrameCount - 1]

\* 7 frames, one of which is not JSON
GarbledMsg == [Msg(0, "status", NoText, "busy") EXCEPT !.json_ok = FALSE]

MessagesFor(p) ==
    {Msg(p, "execute_result", <<p, n, "repr">>, "none") : n \in 1..MaxText}
    \cup {Msg(p, "execute_result", <<p, 0, "plain">>, "none")}
    \cup {Msg(p, "stream", <<p, n, "padded">>, "none") : n \in 0..MaxText}
    \cup {Msg(p, "stream", <<p, 0, "plain">>, "none")}
    \cup {Msg(p, "stream", <<p, 1, "notice">>, "none")}
    \cup {Msg(p, "error", <<p, n, "traceback">>, "none") : n \in 1..MaxText}
    \cup {Msg(p, "status", NoText, e) : e \in {"busy", "idle"}}
    \cup {Msg(p, "execute_input", NoText, "none")}

\* parent 0 stands for a parent_header of another client's request, or one
\* without msg_id
ForeignMessages == {Msg(0, "stream", <<0, 1, "padded">>, "none"), Msg(0, "status", NoText, "idle")}

KernelMessages(parents) ==
    {ShortMsg, GarbledMsg} \cup ForeignMessages
    \cup UNION {MessagesFor(p) : p \in parents}

IsIdleFor(msg, id) ==
    /\ msg.len >= FrameCount /\ msg.json_ok
    /\ msg.parent = id /\ msg.msg_type = "status" /\ msg.execution_state = "idle"

----------------------------------------------------------------------------
(* _process_iopub_messages, server.py:79-137 *)

\* server.py:503-508
NewExecution ==
    [results |-> <<>>, streams |-> <<>>, errors |-> <<>>, done |-> FALSE,
     interrupted |-> FALSE]

\* server.py:112  content.get("text", "").strip()
Strip(t) == <<t[1], t[2], IF t[3] = "padded" THEN "plain" ELSE t[3]>>

\* server.py:117-133  "{ename}: {evalue}", plus the traceback lines with the
\* colour codes removed when there is a traceback
ErrorMsg(t) ==
    <<t[1], t[2], IF t[3] = "traceback" THEN "summary+clean traceback" ELSE "summary">>

\* a drain pass that folds every reply into the oldest tracked entry
TargetEntry_oldest(msg, pend) ==
    CHOOSE id \in DOMAIN pend : \A other \in DOMAIN pend : id <= other

\* server.py:99, 103  the entry a message is folded into
TargetEntry(msg, pend) == msg.parent

\* a dispatch that keeps only the latest stream text
Accumulate_latest_stream(st, msg) ==
    IF msg.msg_type = "stream"
    THEN IF IsEmptyText(Strip(msg.text)) THEN st
         ELSE [st EXCEPT !.streams = <<Strip(msg.text)>>]
    ELSE IF msg.msg_type = "status"
    THEN IF msg.execution_state = "idle" THEN [st EXCEPT !.done = TRUE] ELSE st
    ELSE st

\* a dispatch that takes every status message for the end of the execution
Accumulate_any_status(st, msg) ==
    IF msg.msg_type = "status" THEN [st EXCEPT !.done = TRUE] ELSE st

\* server.py:104-137  dispatch on msg_type
Accumulate(st, msg) ==
    IF msg.msg_type = "execute_result"
    THEN IF IsEmptyText(msg.text) THEN st
         ELSE [st EXCEPT !.results = Append(@, msg.text)]
    ELSE IF msg.msg_type = "stream"
    THEN IF IsEmptyText(Strip(msg.text)) THEN st
         ELSE [st EXCEPT !.streams = Append(@, Strip(msg.text))]
    ELSE IF msg.msg_type = "error"
    THEN [st EXCEPT !.errors = Append(@, ErrorMsg(msg.text))]
    ELSE IF msg.msg_type = "status"
    THEN IF msg.execution_state = "idle" THEN [st EXCEPT !.done = TRUE] ELSE st
    ELSE st

\* a lookup that takes a message of an untracked request for a reply to the
\* oldest tracked one
IsTracked_or_adopted(msg, pend) == TRUE

\* server.py:99-100  msg_id in pending_executions
IsTracked(msg, pend) == msg.parent \in DOMAIN pend

\* the entry a message is folded into once the lookup has passed
EntryFor(msg, pend) ==
    IF msg.parent \in DOMAIN pend THEN TargetEntry(msg, pend)
    ELSE TargetEntry_oldest(msg, pend)

\* what a drain pass leaves: the table, the messages still queued, whether it
\* ended in an exception, and how many messages it dropped at the lookup
Drained(pend, q, raised) ==
    [pending |-> pend, queue |-> q, raised |-> raised, discarded |-> 0]

\* server.py:86-137  the loop: read until zmq.Again; json.loads raising leaves
\* the loop (and the caller) with the garbled message consumed
RECURSIVE Drain(_, _)
Drain(q, pend) ==
    IF q = <<>>
    THEN Drained(pend, q, FALSE)
    ELSE LET msg == Head(q) IN
         IF msg.len < FrameCount THEN Drain(Tail(q), pend)
         ELSE IF ~msg.json_ok
         THEN Drained(pend, Tail(q), TRUE)
         ELSE IF ~IsTracked(msg, pend)
         THEN [Drain(Tail(q), pend) EXCEPT !.discarded = @ + 1]
         ELSE LET id == EntryFor(msg, pend) IN
              Drain(Tail(q), [pend EXCEPT ![id] = Accumulate(@, msg)])

\* server.py:83-90  nothing to do without a socket or without tracked
\* executions; recv on a closed socket raises ZMQError, which is not zmq.Again
ProcessIopub(sock, q, pend) ==
    IF ~Truthy(sock) \/ DOMAIN pend = {}
    THEN Drained(pend, q, FALSE)
    ELSE IF ~sock.open
    THEN Drained(pend, q, TRUE)
    ELSE Drain(q, pend)

----------------------------------------------------------------------------
(* Sending on a DEALER socket *)

\* send_multipart: raises on a closed socket; on a socket whose connect failed
\* it may raise or queue the envelope; on a connected socket it queues it
SendOutcomes(sock) ==
    IF ~sock.open THEN {"raise"}
    ELSE IF ~sock.bound THEN {"ok", "raise"}
    ELSE {"ok"}

\* sign_message(msg_parts, kernel_connection['key']) raises KeyError without 'key'
CanSign(kc) == ~IsMissing(kc, "key")

----------------------------------------------------------------------------
(* The envelopes of execute_request and interrupt_request *)

\* A code string is a sequence of characters, of these kinds
CodeChars == {"n", "newline", "backslash", "quote", "e-acute"}

RECURSIVE CodesOfLen(_)
CodesOfLen(k) ==
    IF k = 0 THEN {<<>>}
    ELSE {Append(c, ch) : c \in CodesOfLen(k - 1), ch \in CodeChars}

Codes == UNION {CodesOfLen(k) : k \in 0..MaxCodeLen}

\* a json.dumps that writes the backslash as it is
EscapeChar_raw_backslash(ch) ==
    IF ch = "newline" THEN <<"backslash", "n">>
    ELSE IF ch = "quote" THEN <<"backslash", "quote">>
    ELSE IF ch = "e-acute" THEN <<"backslash", "u", "00e9">>
    ELSE <<ch>>

\* json.dumps (ensure_ascii) of one character of a str: the ASCII characters
\* it writes between the quotes
EscapeChar(ch) ==
    IF ch = "newline" THEN <<"backslash", "n">>
    ELSE IF ch = "backslash" THEN <<"backslash", "backslash">>
    ELSE IF ch = "quote" THEN <<"backslash", "quote">>
    ELSE IF ch = "e-acute" THEN <<"backslash", "u", "00e9">>
    ELSE <<ch>>

\* json.dumps(...).encode('utf-8') of a str: the output is ASCII, which utf-8
\* encodes byte for character
RECURSIVE JsonDumps(_)
JsonDumps(str) ==
    IF str = <<>> THEN <<>> ELSE EscapeChar(Head(str)) \o JsonDumps(Tail(str))

\* the character a \u escape stands for
Unescaped(hex) == IF hex = "00e9" THEN "e-acute" ELSE "invalid"

\* json.loads of what stands between the quotes of a JSON string: a backslash
\* starts an escape
RECURSIVE JsonLoads(_)
JsonLoads(chars) ==
    IF chars = <<>> THEN <<>>
    ELSE IF Head(chars) # "backslash" THEN <<Head(chars)>> \o JsonLoads(Tail(chars))
    ELSE IF Len(chars) < 2 THEN <<"invalid">>
    ELSE IF chars[2] = "n" THEN <<"newline">> \o JsonLoads(SubSeq(chars, 3, Len(chars)))
    ELSE IF chars[2] \in {"backslash", "quote"}
    THEN <<chars[2]>> \o JsonLoads(SubSeq(chars, 3, Len(chars)))
    ELSE IF chars[2] = "u" /\ Len(chars) >= 3
    THEN <<Unescaped(chars[3])>> \o JsonLoads(SubSeq(chars, 4, Len(chars)))
    ELSE <<"invalid">>

\* a frame of a multipart message.  `kind` tells what the frame is; a
\* signature has the key and the frames it was computed over, a header its
\* msg_id and msg_type, a content its code as written by json.dumps
Frame(kind) ==
    [kind |-> kind, key |-> 0, over |-> <<>>, msg_id |-> 0, msg_type |-> "",
     code |-> <<>>]

\* b''
EmptyFrame == Frame("empty")

\* b'<IDS|MSG>'
DelimiterFrame == Frame("<IDS|MSG>")

\* b'{}' and json.dumps({}).encode("utf-8")
EmptyObjectFrame == Frame("{}")

\* server.py:307-314, 327  json.dumps(header).encode('utf-8')
HeaderFrame(msg_id, msg_type) ==
    [Frame("header") EXCEPT !.msg_id = msg_id, !.msg_type = msg_type]

\* server.py:316-323, 330  json.dumps(content).encode('utf-8')
ExecuteContentFrame(code) == [Frame("content") EXCEPT !.code = JsonDumps(code)]

\* a signature computed over the header alone
sign_message_header_only(msg_lst, key) ==
    [Frame("signature") EXCEPT !.key = key, !.over = <<msg_lst[1]>>]

\* server.py:71-76  HMAC-SHA256 under key, updated with each part in turn
sign_message(msg_lst, key) ==
    [Frame("signature") EXCEPT !.key = key, !.over = msg_lst]

\* server.py:336-344, 499-501, 681-689  the list passed to send_multipart
Envelope(msg_parts, signature) ==
    <<EmptyFrame, DelimiterFrame, signature,
      msg_parts[1], msg_parts[2], msg_parts[3], msg_parts[4]>>

\* server.py:326-333, 490-497
ExecuteRequest(msg_id, code, kc) ==
    LET msg_parts == <<HeaderFrame(msg_id, "execute_request"), EmptyObjectFrame,
                       EmptyObjectFrame, ExecuteContentFrame(code)>>
    IN  Envelope(msg_parts, sign_message(msg_parts, kc.ep))

\* server.py:655-689  its msg_id is a uuid4 of its own, 0 in the model: an id
\* that is never tracked
InterruptRequest(kc) ==
    LET msg_parts == <<HeaderFrame(0, "interrupt_request"), EmptyObjectFrame,
                       EmptyObjectFrame, EmptyObjectFrame>>
    IN  Envelope(msg_parts, sign_message(msg_parts, kc.ep))

----------------------------------------------------------------------------
(* execute_code_nonblocking, server.py:449-513 *)

\* server.py:465
AsyncNotConnected == ~TruthyConnection(kernel_connection) \/ ~Truthy(shell_socket)

\* a registration that starts the table afresh
TrackNew_alone(pend, msg_id) == (msg_id :> NewExecution)

\* server.py:503-508  pending_executions[msg_id] = {...}
TrackNew(pend, msg_id) == (msg_id :> NewExecution) @@ pend

execute_code_nonblocking(code) ==
    /\ pc = "ready"
    /\ IF AsyncNotConnected
       THEN /\ ret' = Ret("execute_async", "NotConnected")
            /\ UNCHANGED <<pending_executions, nextId>>
       ELSE IF ~CanSign(kernel_connection)
       THEN /\ ret' = Ret("execute_async", "StartFailed")
            /\ UNCHANGED <<pending_executions, nextId>>
       ELSE \E o \in SendOutcomes(shell_socket) :
              IF o = "raise"
              THEN /\ ret' = Ret("execute_async", "StartFailed")
                   /\ UNCHANGED <<pending_executions, nextId>>
              ELSE /\ nextId <= MaxIds
                   /\ pending_executions' = TrackNew(pending_executions, nextId)
                   /\ nextId' = nextId + 1
                   /\ ret' = [Ret("execute_async", "Started")
                                 EXCEPT !.id = nextId, !.sent = "shell", !.code = code,
                                        !.envelope = ExecuteRequest(nextId, code,
                                                                    kernel_connection)]
    /\ UNCHANGED <<conn_vars, iopubQ, delivered, terminal_ids, idle_published, wait_vars>>

----------------------------------------------------------------------------
(* check_execution, server.py:516-552 *)

\* server.py:541-542  each error is marked
MarkError(e) == <<"error", e>>

MarkAll(errs) == [i \in 1..Len(errs) |-> MarkError(errs[i])]

\* a poll that lists the results before the streams
OutputParts_results_first(st) == st.results \o st.streams \o MarkAll(st.errors)

\* server.py:538-542  streams, then results, then errors
OutputParts(st) == st.streams \o st.results \o MarkAll(st.errors)

\* a terminal poll that forgets to delete the entry
Without_kept(pend, id) == pend

\* a terminal poll that clears the whole table
Without_cleared(pend, id) == <<>>

\* server.py:545  del pending_executions[msg_id]
Without(pend, id) == [i \in DOMAIN pend \ {id} |-> pend[i]]

\* a poll that drains the socket before it looks the id up
CheckDrain_before_lookup(msg_id, sock, q, pend) == ProcessIopub(sock, q, pend)

\* server.py:531-534  the drain pass of a poll: none when the id is not tracked
CheckDrain(msg_id, sock, q, pend) ==
    IF msg_id \notin DOMAIN pend
    THEN Drained(pend, q, FALSE)
    ELSE ProcessIopub(sock, q, pend)

\* The str a tool returns, as its lines.  A line is <<text, form, mark>>: the
\* characters of a returned part say nothing of the request they came from.
CharsOf(part) ==
    IF Len(part) = 2
    THEN <<part[2][2], part[2][3], "marked">>      \* f"X {error}"
    ELSE <<part[2], part[3], "">>

\* "\n".join(output_parts)
JoinLines(parts) == [i \in 1..Len(parts) |-> CharsOf(parts[i])]

\* server.py:409, 423  the notice of a timeout without output; a stream text of
\* form "notice" has these characters
NoticeLine == <<1, "notice", "">>

\* server.py:409, 421  the notice followed by "Partial output:"
PartialHeader == <<0, "timed out, partial output", "">>

\* server.py:441, 547
NoOutputLine == <<0, "executed successfully (no output)", "">>

\* server.py:551-552
InProgressLine == <<0, "execution in progress", "">>

\* server.py:544-552  the str check_execution returns for its two outcomes
CheckReturn(r) ==
    IF r.kind = "Terminal"
    THEN IF r.out = <<>> THEN <<NoOutputLine>> ELSE JoinLines(r.out)
    ELSE IF r.out = <<>> THEN <<InProgressLine>>
         ELSE JoinLines(r.out) \o <<InProgressLine>>

check_execution(msg_id) ==
    /\ pc = "ready"
    /\ LET d == CheckDrain(msg_id, iopub_socket, iopubQ, pending_executions) IN
       IF msg_id \notin DOMAIN pending_executions
       THEN \* server.py:531-532
            /\ ret' = [Ret("check", "Unknown") EXCEPT !.id = msg_id]
            /\ pending_executions' = d.pending
            /\ iopubQ' = d.queue
            /\ UNCHANGED terminal_ids
       ELSE LET state == d.pending[msg_id]
            IN  /\ iopubQ' = d.queue
                /\ IF d.raised
                   THEN \* the exception leaves check_execution
                        /\ pending_executions' = d.pending
                        /\ ret' = [Ret("check", "Fault") EXCEPT
                                      !.id = msg_id, !.discarded = d.discarded]
                        /\ UNCHANGED terminal_ids
                   ELSE IF state.done
                   THEN \* server.py:544-548
                        /\ pending_executions' = Without(d.pending, msg_id)
                        /\ ret' = [Ret("check", "Terminal") EXCEPT
                                      !.id = msg_id, !.out = OutputParts(state),
                                      !.discarded = d.discarded]
                        /\ terminal_ids' = terminal_ids \cup {msg_id}
                   ELSE \* server.py:550-552
                        /\ pending_executions' = d.pending
                        /\ ret' = [Ret("check", "Running") EXCEPT
                                      !.id = msg_id, !.out = OutputParts(state),
                                      !.discarded = d.discarded]
                        /\ UNCHANGED terminal_ids
    /\ UNCHANGED <<conn_vars, nextId, delivered, idle_published, wait_vars>>

----------------------------------------------------------------------------
(* interrupt_execution, server.py:630-698 *)

\* server.py:647
InterruptNotConnected ==
    ~TruthyConnection(kernel_connection) \/ ~Truthy(control_socket)

\* an interrupt that does not look the id up
NoPendingExecution_skipped(msg_id, pend) == FALSE

\* server.py:650
NoPendingExecution(msg_id, pend) == msg_id \notin DOMAIN pend

\* an interrupt that marks every tracked execution
MarkInterrupted_all(pend, msg_id) ==
    [id \in DOMAIN pend |-> [pend[id] EXCEPT !.interrupted = TRUE]]

\* server.py:692-693
MarkInterrupted(pend, msg_id) ==
    IF msg_id \in DOMAIN pend
    THEN [pend EXCEPT ![msg_id].interrupted = TRUE]
    ELSE pend

interrupt_execution(msg_id) ==
    /\ pc = "ready"
    /\ IF InterruptNotConnected
       THEN /\ ret' = [Ret("interrupt", "NotConnected") EXCEPT !.id = msg_id]
            /\ UNCHANGED pending_executions
       ELSE IF NoPendingExecution(msg_id, pending_executions)
       THEN /\ ret' = [Ret("interrupt", "Unknown") EXCEPT !.id = msg_id]
            /\ UNCHANGED pending_executions
       ELSE IF ~CanSign(kernel_connection)
       THEN /\ ret' = [Ret("interrupt", "InterruptFailed") EXCEPT !.id = msg_id]
            /\ UNCHANGED pending_executions
       ELSE \E o \in SendOutcomes(control_socket) :
              IF o = "raise"
              THEN /\ ret' = [Ret("interrupt", "InterruptFailed") EXCEPT !.id = msg_id]
                   /\ UNCHANGED pending_executions
              ELSE /\ pending_executions' = MarkInterrupted(pending_executions, msg_id)
                   /\ ret' = [Ret("interrupt", "Sent") EXCEPT
                                 !.id = msg_id, !.sent = "control",
                                 !.envelope = InterruptRequest(kernel_connection)]
    /\ UNCHANGED <<conn_vars, iopubQ, nextId, delivered, terminal_ids,
                   idle_published, wait_vars>>

----------------------------------------------------------------------------
(* The kernel *)

\* ids this client has put on the wire
IssuedIds == 1..(nextId - 1)

\* the SUB socket receives what the kernel publishes while it is connected
IopubListening == Truthy(iopub_socket) /\ iopub_socket.open /\ iopub_socket.bound

IdleIdsIn(q) == {id \in IssuedIds : \E i \in 1..Len(q) : IsIdleFor(q[i], id)}

\* the kernel publishes msg, as one of at most `limit` messages
Publish(msg, limit) ==
    /\ IopubListening
    /\ delivered < limit
    /\ Len(iopubQ) < MaxQueue
    /\ iopubQ' = Append(iopubQ, msg)
    /\ delivered' = delivered + 1
    /\ idle_published' = idle_published \cup IdleIdsIn(<<msg>>)
    /\ UNCHANGED <<conn_vars, pending_executions, nextId, ret, terminal_ids, wait_vars>>

KernelPublish(msg) == Publish(msg, MaxDeliver)

\* the replies to request p when the kernel numbers what it outputs: its k-th
\* message carries text k
NumberedReplies(p, k) ==
    {Msg(p, "execute_result", <<p, k, "repr">>, "none"),
     Msg(p, "stream", <<p, k, "padded">>, "none"),
     Msg(p, "error", <<p, k, "traceback">>, "none"),
     Msg(p, "status", NoText, "idle")}

KernelReplies(msg) == Publish(msg, MaxReplies)

----------------------------------------------------------------------------
(* execute_code, server.py:282-446.  The handler polls the IOPub socket while
   the kernel keeps publishing, so it is modelled in steps: the call up to the
   wait loop, the iterations of the loop, and the return. *)

\* server.py:346-353; `slept` counts the 10 ms sleeps of this call (it stops
\* counting one past the limit) and `skipped` the messages of fewer than 7
\* frames it has read
NewWait(id) ==
    [msg_id |-> id, results |-> <<>>, errors |-> <<>>, streams |-> <<>>,
     execution_done |-> FALSE, timeout_count |-> 0, raised |-> FALSE, slept |-> 0,
     skipped |-> 0]

NoWait == NewWait(0)

\* server.py:299
BlockingNotConnected ==
    \/ ~TruthyConnection(kernel_connection)
    \/ ~Truthy(shell_socket)
    \/ ~Truthy(iopub_socket)

\* server.py:367-398  dispatch on msg_type, into the locals
WaitDispatch(s, msg) ==
    IF msg.msg_type = "execute_result"
    THEN IF IsEmptyText(msg.text) THEN s
         ELSE [s EXCEPT !.results = Append(@, msg.text)]
    ELSE IF msg.msg_type = "stream"
    THEN IF IsEmptyText(Strip(msg.text)) THEN s
         ELSE [s EXCEPT !.streams = Append(@, Strip(msg.text))]
    ELSE IF msg.msg_type = "error"
    THEN [s EXCEPT !.errors = Append(@, ErrorMsg(msg.text))]
    ELSE IF msg.msg_type = "status"
    THEN IF msg.execution_state = "idle" THEN [s EXCEPT !.execution_done = TRUE] ELSE s
    ELSE s

\* a wait loop that takes every message as a reply to its request
IsReplyToUs_any(s, msg) == TRUE

\* server.py:364  only replies to our request
IsReplyToUs(s, msg) == msg.parent = s.msg_id

\* an iteration that takes a message of fewer than 7 frames for a failure
WaitRecv_short_raises(s, msg) ==
    IF msg.len >= FrameCount
    THEN IF ~msg.json_ok THEN [s EXCEPT !.raised = TRUE]
         ELSE IF ~IsReplyToUs(s, msg) THEN s
         ELSE [WaitDispatch(s, msg) EXCEPT !.timeout_count = 0]
    ELSE [s EXCEPT !.raised = TRUE, !.skipped = @ + 1]

\* server.py:357-400  an iteration in which recv_multipart returned msg: a
\* message for another request hits `continue`, before the counter is reset
WaitRecv(s, msg) ==
    IF msg.len >= FrameCount
    THEN IF ~msg.json_ok THEN [s EXCEPT !.raised = TRUE]
         ELSE IF ~IsReplyToUs(s, msg) THEN s
         ELSE [WaitDispatch(s, msg) EXCEPT !.timeout_count = 0]
    ELSE [s EXCEPT !.timeout_count = 0, !.skipped = @ + 1]

Min(a, b) == IF a < b THEN a ELSE b

\* server.py:402-404  k iterations in a row in which recv raised zmq.Again
WaitAgain(s, k) ==
    [s EXCEPT !.timeout_count = @ + k,
              !.slept = Min(@ + k, TimeoutLimit + 1)]

\* server.py:355
WaitContinues(s) ==
    ~s.execution_done /\ s.timeout_count < TimeoutLimit /\ ~s.raised

\* server.py:297-353  up to the wait loop
execute_code_begin(code) ==
    /\ pc = "ready"
    /\ IF BlockingNotConnected
       THEN /\ ret' = Ret("execute", "NotConnected")
            /\ UNCHANGED <<nextId, wait_vars>>
       ELSE IF ~CanSign(kernel_connection)
       THEN /\ ret' = Ret("execute", "ExecFailed")
            /\ UNCHANGED <<nextId, wait_vars>>
       ELSE \E o \in SendOutcomes(shell_socket) :
              IF o = "raise"
              THEN /\ ret' = Ret("execute", "ExecFailed")
                   /\ UNCHANGED <<nextId, wait_vars>>
              ELSE /\ nextId <= MaxIds
                   /\ nextId' = nextId + 1
                   /\ pc' = "waiting"
                   /\ wl' = NewWait(nextId)
                   /\ ret' = [Ret("execute", "Waiting") EXCEPT
                                 !.id = nextId, !.sent = "shell", !.code = code,
                                 !.envelope = ExecuteRequest(nextId, code,
                                                             kernel_connection)]
    /\ UNCHANGED <<conn_vars, pending_executions, iopubQ, delivered, terminal_ids,
                   idle_published>>

\* a read that puts the message back at the end of the queue
AfterRecv_put_back(q) == Append(Tail(q), Head(q))

\* server.py:357  recv_multipart takes the first queued message off the socket
AfterRecv(q) == Tail(q)

\* server.py:355-400  one iteration that reads a message (or fails to read:
\* recv on a closed socket raises ZMQError, caught at server.py:445)
wait_recv ==
    /\ pc = "waiting"
    /\ WaitContinues(wl)
    /\ IF ~iopub_socket.open
       THEN /\ wl' = [wl EXCEPT !.raised = TRUE]
            /\ UNCHANGED iopubQ
       ELSE /\ iopubQ # <<>>
            /\ wl' = WaitRecv(wl, Head(iopubQ))
            /\ iopubQ' = AfterRecv(iopubQ)
    /\ UNCHANGED <<conn_vars, pending_executions, nextId, delivered, ret,
                   terminal_ids, idle_published, pc>>

\* server.py:402-404  k empty polls in a row
wait_again(k) ==
    /\ pc = "waiting"
    /\ WaitContinues(wl)
    /\ iopub_socket.open
    /\ iopubQ = <<>>
    /\ wl.timeout_count + k <= TimeoutLimit
    /\ wl' = WaitAgain(wl, k)
    /\ UNCHANGED <<conn_vars, pending_executions, iopubQ, nextId, delivered, ret,
                   terminal_ids, idle_published, pc>>

\* server.py:412-418, 426-438  streams, then results, then errors
WaitOutput(s) == s.streams \o s.results \o MarkAll(s.errors)

\* server.py:406-446  what the call returns once the loop is left
WaitResult(s) ==
    IF s.raised THEN Ret("execute", "ExecFailed")
    ELSE IF ~s.execution_done
    THEN [Ret("execute", "TimedOut") EXCEPT !.id = s.msg_id, !.out = WaitOutput(s)]
    ELSE [Ret("execute", "Completed") EXCEPT !.id = s.msg_id, !.out = WaitOutput(s)]

\* server.py:406-443  the str execute_code returns for its two outcomes
ExecuteReturn(r) ==
    IF r.kind = "TimedOut"
    THEN IF r.out = <<>> THEN <<NoticeLine>>
         ELSE <<PartialHeader>> \o JoinLines(r.out)
    ELSE IF r.out = <<>> THEN <<NoOutputLine>>
         ELSE JoinLines(r.out)

execute_code_return ==
    /\ pc = "waiting"
    /\ ~WaitContinues(wl)
    /\ ret' = WaitResult(wl)
    /\ pc' = "ready"
    /\ wl' = NoWait
    /\ UNCHANGED <<conn_vars, pending_executions, iopubQ, nextId, delivered,
                   terminal_ids, idle_published>>

----------------------------------------------------------------------------
(* Specifications *)

Init ==
    /\ kernel_connection = NoConnection
    /\ context = NoContext
    /\ shell_socket = NoSocket
    /\ iopub_socket = NoSocket
    /\ control_socket = NoSocket
    /\ pending_executions = <<>>
    /\ iopubQ = <<>>
    /\ nextId = 1
    /\ delivered = 0
    /\ ret = Ret("none", "none")
    /\ leaked = {}
    /\ terminal_ids = {}
    /\ idle_published = {}
    /\ connected_ok = FALSE
    /\ pc = "ready"
    /\ wl = NoWait

\* the empty polls of the wait loop are taken in bursts of half the limit
PollBursts == {TimeoutLimit \div 2}

\* the connection files of the execution runs: no file, a garbled file, and for
\* the first endpoint a complete descriptor, one without 'key', and one whose
\* iopub address zmq refuses
ExecFiles ==
    {f \in ConnectionFiles :
        \/ f.kind # "json"
        \/ /\ f.desc.ep = 1
           /\ \/ f.desc.present = RequiredSet /\ f.desc.bad \in {"none", "iopub"}
              \/ f.desc.present = RequiredSet \ {"key"} /\ f.desc.bad = "none"}

\* the code string of the runs that are not about the request envelope
UsualCodes == {<<"n">>}

Next ==
    \/ \E f \in ExecFiles : connect_to_kernel(f)
    \/ disconnect_kernel
    \/ kernel_status
    \/ \E code \in UsualCodes : execute_code_nonblocking(code)
    \/ \E id \in 1..MaxIds : check_execution(id)
    \/ \E id \in 1..MaxIds : interrupt_execution(id)
    \/ \E code \in UsualCodes : execute_code_begin(code)
    \/ wait_recv
    \/ \E k \in PollBursts : wait_again(k)
    \/ execute_code_return
    \/ \E m \in KernelMessages(IssuedIds) : KernelPublish(m)

\* Every operation of the client, any kernel behaviour, a few connection files
Spec == Init /\ [][Next]_vars

NextConn ==
    \/ \E f \in ConnectionFiles : connect_to_kernel(f)
    \/ disconnect_kernel
    \/ kernel_status
    \/ \E code \in UsualCodes : execute_code_nonblocking(code)
    \/ \E id \in 1..MaxIds : interrupt_execution(id)
    \/ \E code \in UsualCodes : execute_code_begin(code)
    \/ wait_recv
    \/ \E k \in PollBursts : wait_again(k)
    \/ execute_code_return

\* Every operation of the client over every connection file, with a kernel
\* that publishes nothing
SpecConn == Init /\ [][NextConn]_vars

\* the connection files of the envelope runs: none, and for each endpoint the
\* complete descriptor and one without 'hb_port'
WireFiles ==
    {f \in ConnectionFiles :
        \/ f.kind = "absent"
        \/ /\ f.kind = "json" /\ f.desc.bad = "none"
           /\ RequiredSet \ {"hb_port"} \subseteq f.desc.present}

NextWire ==
    \/ \E f \in WireFiles : connect_to_kernel(f)
    \/ disconnect_kernel
    \/ \E code \in Codes : execute_code_nonblocking(code)
    \/ \E code \in Codes : execute_code_begin(code)
    \/ \E k \in PollBursts : wait_again(k)
    \/ execute_code_return
    \/ \E id \in 1..MaxIds : interrupt_execution(id)

\* Requests of every code string sent over every session the envelope runs'
\* connection files give, with a kernel that publishes nothing
SpecWire == Init /\ [][NextWire]_vars

\* the connection file of the reply-order runs: the complete descriptor of the
\* first endpoint
GoodFile == [kind |-> "json",
             desc |-> [obj |-> TRUE, ep |-> 1, present |-> RequiredSet, bad |-> "none"]]

NextOrder ==
    \/ connect_to_kernel(GoodFile)
    \/ \E code \in UsualCodes : execute_code_nonblocking(code)
    \/ \E id \in 1..MaxIds : check_execution(id)
    \/ \E code \in UsualCodes : execute_code_begin(code)
    \/ wait_recv
    \/ \E k \in PollBursts : wait_again(k)
    \/ execute_code_return
    \/ \E p \in IssuedIds : \E m \in NumberedReplies(p, delivered + 1) : KernelReplies(m)

\* Executions on a connected client whose kernel numbers its outputs and
\* publishes well-formed replies to the client's own requests only
SpecOrder == Init /\ [][NextOrder]_vars

----------------------------------------------------------------------------
(* Properties *)

Tracked == DOMAIN pending_executions

FragmentsOf(st) ==
    {st.results[i] : i \in 1..Len(st.results)}
    \cup {st.streams[i] : i \in 1..Len(st.streams)}
    \cup {st.errors[i] : i \in 1..Len(st.errors)}

\* every fragment an entry holds came from a message whose parent msg_id is the
\* entry's id
FragmentsAreOwn ==
    \A id \in Tracked : \A frag \in FragmentsOf(pending_executions[id]) : frag[1] = id

\* an entry is created not done, and a step sets its completion flag only if an
\* idle status with that parent id was queued on the socket
DoneOnlyByOwnIdle ==
    \A id \in DOMAIN pending_executions' :
        IF id \in Tracked
        THEN (pending_executions'[id].done /\ ~pending_executions[id].done)
                => \E i \in 1..Len(iopubQ) : IsIdleFor(iopubQ[i], id)
        ELSE ~pending_executions'[id].done

\* C1: a drain pass appends a message's content (result, stream, error,
\* completion) only to the entry whose id equals the message's
\* parent_header.msg_id; no entry receives a fragment or completion flag from a
\* message with a different parent id.
C1_RoutedByParentId == [](FragmentsAreOwn) /\ [][DoneOnlyByOwnIdle]_vars

\* two executions are tracked and each holds content of its own replies
C1_Witness ==
    /\ {1, 2} \subseteq Tracked
    /\ pending_executions[2].results # <<>>
    /\ pending_executions[1].streams # <<>>

\* C2 (as claimed): once the kernel has published the idle status of a tracked
\* execution on the connected session, the completion is not lost: the entry is
\* done or the idle status is still queued for the next drain pass, so polling
\* the id reaches a terminal outcome.
C2_IdleReachesPoll ==
    \A id \in idle_published \cap Tracked :
        \/ pending_executions[id].done
        \/ \E i \in 1..Len(iopubQ) : IsIdleFor(iopubQ[i], id)

\* C3 (as claimed): execute_code never waits longer than its bound of
\* TimeoutLimit polls of 10 ms, whatever the channel delivers.
C3_WaitIsBounded == pc = "waiting" => wl.slept <= TimeoutLimit

\* some step of check_execution on id
CheckStepOn(id) ==
    /\ ret'.op = "check" /\ ret'.id = id
    /\ (ret' # ret \/ pending_executions' # pending_executions)

\* C4: after check_execution(id) returned a terminal outcome the entry is gone
\* and every later check_execution(id) returns the unknown-id outcome, so a
\* terminal outcome is returned at most once per id.
C4_TerminalOnce ==
    /\ [](terminal_ids \cap Tracked = {})
    /\ [][\A id \in terminal_ids : CheckStepOn(id) => ret'.kind = "Unknown"]_vars

\* a poll of an id that had its terminal outcome returned the unknown-id outcome
C4_Witness == ret.op = "check" /\ ret.kind = "Unknown" /\ ret.id \in terminal_ids

\* C5: the only step that removes an id from pending_executions is a
\* check_execution on that id that returns the terminal outcome; every other
\* step keeps or grows the set of tracked ids.
C5_OnlyTerminalPollRemoves ==
    [][\/ Tracked \subseteq DOMAIN pending_executions'
       \/ /\ ret'.op = "check" /\ ret'.kind = "Terminal"
          /\ ret'.id \in Tracked
          /\ (\/ pending_executions[ret'.id].done
              \/ \E i \in 1..Len(iopubQ) : IsIdleFor(iopubQ[i], ret'.id))
          /\ DOMAIN pending_executions' = Tracked \ {ret'.id}]_vars

\* a disconnect, and a failed connect, with executions still tracked
C5_Witness ==
    /\ Tracked = {1, 2}
    /\ \/ ret.op = "disconnect"
       \/ ret.op = "connect" /\ ret.kind = "BindError"

OpenChannelSet == {ch \in Channels : SocketOf(Globals, ch).open}

\* C6 (as claimed): while no connect_to_kernel call has succeeded since the
\* last disconnect, kernel_status() reports the not-connected value.
C6_AbsentUntilConnected ==
    ~connected_ok => StatusOf(kernel_connection).kind = "NotConnected"

\* C7 (as claimed): after a connect attempt in which a channel failed to bind,
\* no channel is open and the context is released.
C7_BindFailureClosesAll ==
    (ret.op = "connect" /\ ret.kind = "BindError")
        => (OpenChannelSet = {} /\ ~context.live)

SetOf(seq) == {seq[i] : i \in 1..Len(seq)}

\* C8: a connect whose descriptor lacks required keys fails with the
\* invalid-descriptor outcome listing exactly the missing keys, and it opens no
\* channel and creates no context; a connect that got as far as the channels
\* had a complete descriptor.
C8_MissingKeysRejected ==
    /\ []((ret.op = "connect" /\ ret.kind = "InvalidDescriptor")
            => /\ SetOf(ret.missing) = RequiredSet \ kernel_connection.present
               /\ Len(ret.missing) = Cardinality(SetOf(ret.missing))
               /\ ret.missing # <<>>)
    /\ []((ret.op = "connect" /\ ret.kind \in {"Connected", "BindError"})
            => kernel_connection.present = RequiredSet)
    /\ [][(ret'.op = "connect" /\ ret'.kind = "InvalidDescriptor")
            => UNCHANGED <<context, shell_socket, iopub_socket, control_socket>>]_vars

\* a descriptor without 'key' was rejected on a client that never had a context
C8_Witness ==
    /\ ret.op = "connect" /\ ret.kind = "InvalidDescriptor"
    /\ ret.missing = <<"key">>
    /\ ~Truthy(context) /\ ~Truthy(shell_socket)

\* C9: at most one transport session is live: every open socket and the live
\* context were created by the latest connect attempt, and no socket or context
\* was dropped while still open.
C9_OneLiveSession ==
    /\ leaked = {}
    /\ \A ch \in OpenChannelSet : SocketOf(Globals, ch).cur
    /\ context.live => context.cur

\* a reconnect closed the previous session's iopub socket before the new shell
\* socket failed to connect
C9_Witness ==
    /\ Truthy(iopub_socket) /\ ~iopub_socket.open /\ ~iopub_socket.cur
    /\ shell_socket.open /\ shell_socket.cur

\* the session is Connected: the three channels are open and connected
SessionConnected ==
    /\ context.live
    /\ \A ch \in Channels : SocketOf(Globals, ch).open /\ SocketOf(Globals, ch).bound

\* C10 (as claimed): when the session is not Connected, execute_code,
\* execute_code_nonblocking and interrupt_execution return the not-connected
\* outcome, send nothing, and leave pending_executions alone.
C10_NotConnectedRefused ==
    [][(/\ pc = "ready"
        /\ ~SessionConnected
        /\ ret'.op \in {"execute", "execute_async", "interrupt"}
        /\ ret' # ret)
          => /\ ret'.kind = "NotConnected"
             /\ ret'.sent = "none"
             /\ UNCHANGED pending_executions]_vars

\* C11 (as claimed): what execute_code returns for a completed execution can
\* always be told from what it returns for a timeout: a completion never
\* returns the str of the timeout outcome.
C11_OutcomesDistinguishable ==
    (ret.op = "execute" /\ ret.kind = "Completed")
        => ExecuteReturn(ret) # ExecuteReturn(Ret("execute", "TimedOut"))

\* C12: check_execution on an id that is not tracked (never issued, or removed
\* by a terminal poll) returns the unknown-id outcome and changes nothing: no
\* entry is modified and no message is taken from the iopub socket.
C12_UnknownPollChangesNothing ==
    [][(ret'.op = "check" /\ ret' # ret /\ ret'.id \notin Tracked)
         => /\ ret'.kind = "Unknown"
            /\ UNCHANGED <<conn_vars, pending_executions, iopubQ, nextId,
                           delivered, terminal_ids, idle_published, wait_vars>>]_vars

\* an unknown id was polled while an execution is tracked and its replies wait
\* unread on the socket
C12_Witness ==
    /\ ret.op = "check" /\ ret.kind = "Unknown" /\ ret.id \notin Tracked
    /\ Tracked # {}
    /\ \E i \in 1..Len(iopubQ) : iopubQ[i].parent \in Tracked

\* some call of interrupt_execution on an id that is not tracked
InterruptUntracked ==
    ret'.op = "interrupt" /\ ret' # ret /\ ret'.id \notin Tracked

\* C13 (as claimed): interrupt_execution on an id that is not tracked returns
\* the unknown-id outcome in every state of the client.
C13_UnknownInEveryState ==
    [][InterruptUntracked => ret'.kind = "Unknown"]_vars

\* C13 (amended): interrupt_execution on an id that is not tracked sends
\* nothing and changes nothing in every state; it returns the unknown-id
\* outcome when a descriptor and a control socket are set, and the
\* not-connected outcome otherwise.
C13_UntrackedInterruptSendsNothing ==
    [][InterruptUntracked
         => /\ ret'.sent = "none"
            /\ ret'.kind = IF InterruptNotConnected THEN "NotConnected" ELSE "Unknown"
            /\ UNCHANGED <<conn_vars, pending_executions, iopubQ, nextId,
                           delivered, terminal_ids, idle_published, wait_vars>>]_vars

\* an untracked id was interrupted on a connected client that tracks another
\* execution
C13_Witness ==
    /\ ret.op = "interrupt" /\ ret.kind = "Unknown" /\ ret.id \notin Tracked
    /\ Tracked # {}
    /\ control_socket.open /\ control_socket.bound

\* C14 (as claimed): interrupt_execution on a tracked id, on a client whose
\* last successful connect was not followed by a disconnect and whose three
\* channels are open, sends one interrupt_request on the control socket and
\* sets the interrupted flag of that entry; nothing else changes.
C14_InterruptFrame ==
    [][(/\ ret'.op = "interrupt" /\ ret' # ret
        /\ ret'.id \in Tracked
        /\ connected_ok /\ SessionConnected)
          => /\ ret'.kind = "Sent" /\ ret'.sent = "control"
             /\ pending_executions' =
                   [pending_executions EXCEPT ![ret'.id].interrupted = TRUE]
             /\ UNCHANGED <<conn_vars, iopubQ, nextId, delivered, terminal_ids,
                            idle_published, wait_vars>>]_vars

\* C15 (as claimed): every tool call returns an outcome of its own, in every
\* state and for every message on the iopub socket; none ends in an exception
\* that leaves the handler.
C15_NoUnhandledFault == ret.kind # "Fault"

\* the str the last call returned
ToolReturn(r) == IF r.op = "execute" THEN ExecuteReturn(r) ELSE CheckReturn(r)

\* 1 for the line of a stream text, 2 for that of a result, 3 for a marked error
ClassOf(line) ==
    IF line[3] = "marked" THEN 3 ELSE IF line[2] = "repr" THEN 2 ELSE 1

\* C16: with a kernel that numbers its outputs in the order it publishes them,
\* a completed execute_code and a terminal check_execution return one line per
\* fragment: the stream texts first, then the results, then the marked errors,
\* each group in the order of arrival, however the messages were interleaved;
\* with no fragment they return the no-output line.
C16_FragmentOrder ==
    ((ret.op = "check" /\ ret.kind = "Terminal") \/ (ret.op = "execute" /\ ret.kind = "Completed"))
        => LET lines == ToolReturn(ret) IN
           IF ret.out = <<>>
           THEN lines = <<NoOutputLine>>
           ELSE /\ Len(lines) = Len(ret.out)
                /\ \A i, j \in 1..Len(lines) :
                      i < j => \/ ClassOf(lines[i]) < ClassOf(lines[j])
                               \/ /\ ClassOf(lines[i]) = ClassOf(lines[j])
                                  /\ lines[i][1] < lines[j][1]

\* a terminal poll returned the stream text of the kernel's second message
\* before the result of its first
C16_Witness ==
    /\ ret.op = "check" /\ ret.kind = "Terminal"
    /\ ToolReturn(ret) = << <<2, "plain", "">>, <<1, "repr", "">> >>

\* no descriptor, no context, no socket
AllCleared ==
    /\ kernel_connection = NoConnection
    /\ context = NoContext
    /\ \A ch \in Channels : SocketOf(Globals, ch) = NoSocket

\* C17: disconnect_kernel succeeds and leaves no descriptor, no context and no
\* socket, none dropped while open; on a client that is already in that state
\* (never connected, or disconnected before) it succeeds and changes nothing.
C17_DisconnectIdempotent ==
    /\ [](ret.op = "disconnect"
            => ret.kind = "Disconnected" /\ AllCleared /\ leaked = {})
    /\ [][(ret'.op = "disconnect" /\ AllCleared)
            => UNCHANGED <<conn_vars, pending_executions, iopubQ, nextId,
                           delivered, terminal_ids, idle_published, wait_vars>>]_vars

\* a disconnect on a client that had sent a request, so had been connected
C17_Witness == ret.op = "disconnect" /\ nextId > 1 /\ AllCleared

FrameKinds(e) == [i \in 1..Len(e) |-> e[i].kind]

\* C18: whatever a call passes to send_multipart, on the shell or the control
\* socket, is 7 frames: b'', the delimiter, the signature, the header, the
\* parent header, the metadata, the content; and the signature is the HMAC of
\* exactly the last four, in that order, under the key of kernel_connection.
\* A call that sent nothing has no envelope.
C18_EnvelopeShape ==
    LET e == ret.envelope IN
    IF ret.sent = "none"
    THEN e = <<>>
    ELSE /\ ret.sent \in {"shell", "control"}
         /\ Len(e) = 7
         /\ FrameKinds(e) \in
               {<<"empty", "<IDS|MSG>", "signature", "header", "{}", "{}", last>> :
                  last \in {"content", "{}"}}
         /\ e[3].over = <<e[4], e[5], e[6], e[7]>>
         /\ e[3].key = kernel_connection.ep

\* an interrupt_request went out on the control socket, signed under the key
\* of the second endpoint's descriptor
C18_Witness ==
    /\ ret.op = "interrupt" /\ ret.sent = "control"
    /\ ret.envelope[4].msg_type = "interrupt_request"
    /\ ret.envelope[3].key = 2

\* C19: for every code string, parsing the header and the content frame of the
\* execute_request that execute_code or execute_code_nonblocking sent gives
\* back msg_type execute_request, the msg_id of the request, and the code
\* string unchanged.
C19_ExecuteRequestRoundTrip ==
    (ret.op \in {"execute", "execute_async"} /\ ret.sent = "shell")
        => /\ ret.envelope[4].msg_type = "execute_request"
           /\ ret.envelope[4].msg_id = ret.id
           /\ JsonLoads(ret.envelope[7].code) = ret.code

\* a request was sent whose code is a backslash followed by the letter n, which
\* json.dumps must keep apart from a newline
C19_Witness ==
    /\ ret.op = "execute_async" /\ ret.sent = "shell"
    /\ ret.code = <<"backslash", "n">>
    /\ ret.envelope[7].code = <<"backslash", "backslash", "n">>

\* the request a returned part was produced for
OriginOf(part) == IF Len(part) = 2 THEN part[2][1] ELSE part[1]

\* what execute_code has collected, or returned, holds only content of replies
\* to its own request
WaitFragmentsAreOwn ==
    /\ pc = "waiting" => \A frag \in FragmentsOf(wl) : frag[1] = wl.msg_id
    /\ (ret.op = "execute" /\ ret.kind \in {"Completed", "TimedOut"})
          => \A i \in 1..Len(ret.out) : OriginOf(ret.out[i]) = ret.id

\* the wait loop is marked done only by reading the idle status of its request
WaitDoneOnlyByOwnIdle ==
    (pc = "waiting" /\ wl'.execution_done /\ ~wl.execution_done)
        => iopubQ # <<>> /\ IsIdleFor(Head(iopubQ), wl.msg_id)

\* C20: execute_code filters by its own msg_id: its outcome contains only
\* fragments of messages whose parent msg_id is the id of its request, and its
\* loop ends as completed only on an idle status with that parent id, never on
\* the idle status of another request.
C20_BlockingFiltersByOwnId ==
    [](WaitFragmentsAreOwn) /\ [][WaitDoneOnlyByOwnIdle]_vars

\* the call for request 2 completed with the result the kernel published
\* first; of the two messages after it the last one ended the loop, so the one
\* in between, the idle status of the tracked request 1, was read by the loop
\* and did not end it
C20_Witness ==
    /\ ret.op = "execute" /\ ret.kind = "Completed" /\ ret.id = 2
    /\ ret.out = << <<2, 1, "repr">> >>
    /\ delivered = 3 /\ iopubQ = <<>>
    /\ 1 \in idle_published /\ 1 \in Tracked /\ ~pending_executions[1].done

\* a step of execute_code: the call up to its loop, or a step taken while the
\* call is in its loop
InExecuteCode == pc = "waiting" \/ pc' = "waiting"

C22_EveryMessageResets ==
    [][(pc = "waiting" /\ Len(iopubQ') < Len(iopubQ) /\ ~wl'.raised)
         => wl'.timeout_count = 0]_vars

\* some drain pass of check_execution that read messages, and what it read
DrainStep == ret'.op = "check" /\ Len(iopubQ') < Len(iopubQ)

Consumed == SubSeq(iopubQ, 1, Len(iopubQ) - Len(iopubQ'))

\* a well-formed message that is neither a result, a stream text, an error nor
\* an idle status
Quiet(msg) ==
    /\ msg.len >= FrameCount /\ msg.json_ok
    /\ IF msg.msg_type = "status" THEN msg.execution_state # "idle"
       ELSE msg.msg_type \notin {"execute_result", "stream", "error"}

\* C23: the completion flag of a tracked entry becomes true only in a drain
\* pass that consumed an idle status whose parent msg_id is the entry's id; a
\* status message with another execution_state and a message of a msg_type
\* other than execute_result, stream, error and status change no entry.
C23_DoneOnlyByConsumedIdle ==
    /\ [][\A id \in DOMAIN pending_executions' :
            IF id \in Tracked
            THEN (pending_executions'[id].done /\ ~pending_executions[id].done)
                    => /\ DrainStep
                       /\ \E i \in 1..Len(Consumed) : IsIdleFor(Consumed[i], id)
            ELSE ~pending_executions'[id].done]_vars
    /\ [][(DrainStep /\ \A i \in 1..Len(Consumed) : Quiet(Consumed[i]))
            => \A id \in DOMAIN pending_executions' :
                  pending_executions'[id] = pending_executions[id]]_vars

\* a poll of request 2 consumed the idle status of request 1: the entry of 1 is
\* done and still tracked, that of 2 is as it was created
C23_Witness ==
    /\ Tracked = {1, 2}
    /\ pending_executions[1].done /\ pending_executions[2] = NewExecution
    /\ ret.op = "check" /\ ret.id = 2 /\ iopubQ = <<>>

\* the well-formed messages of q that are replies of the given type to id
RepliesIn(q, id, type) ==
    SelectSeq(q, LAMBDA m : /\ m.len >= FrameCount /\ m.json_ok
                            /\ m.parent = id /\ m.msg_type = type)

TextsOf(msgs) == [i \in 1..Len(msgs) |-> msgs[i].text]

StrippedTextsOf(msgs) == [i \in 1..Len(msgs) |-> Strip(msgs[i].text)]

ErrorTextsOf(msgs) == [i \in 1..Len(msgs) |-> ErrorMsg(msgs[i].text)]

NonEmpty(texts) == SelectSeq(texts, LAMBDA t : ~IsEmptyText(t))

\* the entry st of id once every message of q has been folded into it
Folded(st, q, id) ==
    [results |-> st.results \o NonEmpty(TextsOf(RepliesIn(q, id, "execute_result"))),
     streams |-> st.streams \o NonEmpty(StrippedTextsOf(RepliesIn(q, id, "stream"))),
     errors |-> st.errors \o ErrorTextsOf(RepliesIn(q, id, "error")),
     done |-> st.done \/ \E i \in 1..Len(q) : IsIdleFor(q[i], id),
     interrupted |-> st.interrupted]

\* some call of check_execution on a tracked id
PollOfTracked ==
    /\ pc = "ready" /\ ret'.op = "check" /\ ret'.id \in Tracked
    /\ Len(iopubQ') <= Len(iopubQ)
    /\ (ret' # ret \/ iopubQ' # iopubQ \/ pending_executions' # pending_executions)

\* C24 (as claimed): the drain pass of a check_execution on a tracked id leaves
\* no message queued on the iopub socket, and every entry that is tracked after
\* the call holds all the queued messages of its id, not only the polled one.
C24_DrainFoldsAll ==
    [][PollOfTracked
         => /\ iopubQ' = <<>>
            /\ \A id \in DOMAIN pending_executions' :
                  pending_executions'[id] = Folded(pending_executions[id], iopubQ, id)]_vars

IsPrefix(a, b) == Len(a) <= Len(b) /\ SubSeq(b, 1, Len(a)) = a

\* the entry new holds what the entry old held, and possibly more
Extends(new, old) ==
    /\ IsPrefix(old.results, new.results)
    /\ IsPrefix(old.streams, new.streams)
    /\ IsPrefix(old.errors, new.errors)
    /\ old.done => new.done

\* C25 (as claimed): a check_execution on a tracked id that is not the terminal
\* one returns the in-progress outcome with every fragment collected so far,
\* and keeps the entry, which holds all it held before.
C25_NonTerminalPoll ==
    [][(PollOfTracked /\ ret'.kind # "Terminal")
         => /\ ret'.kind = "Running"
            /\ ret'.id \in DOMAIN pending_executions'
            /\ ~pending_executions'[ret'.id].done
            /\ ret'.out = OutputParts(pending_executions'[ret'.id])
            /\ Extends(pending_executions'[ret'.id], pending_executions[ret'.id])]_vars

AsyncStep ==
    /\ pc = "ready" /\ ret'.op = "execute_async"
    /\ (ret' # ret \/ pending_executions' # pending_executions \/ nextId' # nextId)

\* C26: an execute_code_nonblocking that succeeds has sent one execute_request
\* carrying the returned msg_id on the shell socket and has added one entry
\* under that id, with three empty lists and done False; the id was never
\* issued before and the other entries are as they were.  One that fails adds
\* no entry.
C26_AsyncAddsOneFreshEntry ==
    [][AsyncStep
         => IF ret'.kind = "Started"
            THEN /\ ret'.sent = "shell"
                 /\ Len(ret'.envelope) = FrameCount
                 /\ ret'.envelope[4].msg_type = "execute_request"
                 /\ ret'.envelope[4].msg_id = ret'.id
                 /\ ret'.id \notin IssuedIds \cup Tracked \cup terminal_ids
                 /\ DOMAIN pending_executions' = Tracked \cup {ret'.id}
                 /\ pending_executions'[ret'.id].results = <<>>
                 /\ pending_executions'[ret'.id].streams = <<>>
                 /\ pending_executions'[ret'.id].errors = <<>>
                 /\ ~pending_executions'[ret'.id].done
                 /\ \A id \in Tracked : pending_executions'[id] = pending_executions[id]
            ELSE UNCHANGED pending_executions]_vars

\* a second execution was started while the first one's entry holds output
C26_Witness ==
    /\ ret.op = "execute_async" /\ ret.kind = "Started" /\ ret.id = 2
    /\ Tracked = {1, 2}
    /\ pending_executions[1].streams # <<>>
    /\ pending_executions[2].streams = <<>> /\ ~pending_executions[2].done

\* q without its messages of fewer than 7 frames
ShortFree(q) == SelectSeq(q, LAMBDA m : m.len >= FrameCount)

\* the wait loop reads a message of fewer than 7 frames
WaitReadsShort ==
    /\ pc = "waiting" /\ iopubQ # <<>> /\ Head(iopubQ).len < FrameCount
    /\ iopubQ' = Tail(iopubQ)

\* C27: a message of fewer than 7 frames is skipped.  A check_execution ends as
\* it would with the short messages taken out of the queue: same entries, same
\* outcome, same messages consumed after them.  A wait loop that reads one
\* keeps its fragments and its done flag, does not fail and goes on reading.
C27_ShortSkipped ==
    /\ [][PollOfTracked
            => LET id == ret'.id
                   ref == CheckDrain(id, iopub_socket, ShortFree(iopubQ), pending_executions)
               IN  /\ (ret'.kind = "Fault") = ref.raised
                   /\ ShortFree(iopubQ') = ref.queue
                   /\ IF ret'.kind = "Terminal"
                      THEN /\ pending_executions' = Without(ref.pending, id)
                           /\ ret'.out = OutputParts(ref.pending[id])
                      ELSE /\ pending_executions' = ref.pending
                           /\ ret'.kind = "Running"
                                 => ret'.out = OutputParts(ref.pending[id])]_vars
    /\ [][WaitReadsShort
            => /\ pc' = "waiting" /\ WaitContinues(wl')
               /\ ret' = ret
               /\ wl'.results = wl.results /\ wl'.streams = wl.streams
               /\ wl'.errors = wl.errors
               /\ wl'.execution_done = wl.execution_done]_vars

\* a wait loop that read a short message took the stream message after it
C27_Witness ==
    /\ pc = "waiting" /\ wl.skipped = 1 /\ wl.streams # <<>>
    /\ delivered = 2 /\ iopubQ = <<>>

\* a well-formed message of a request that is not tracked
Untracked(msg) ==
    msg.len >= FrameCount /\ msg.json_ok /\ msg.parent \notin Tracked

\* q without its messages of untracked requests
TrackedOnly(q) == SelectSeq(q, LAMBDA m : ~Untracked(m))

\* C28: the drain pass drops a message whose parent msg_id is not tracked.  A
\* check_execution ends as it would with those messages taken out of the
\* queue: same entries, same outcome, same fragments returned.
C28_UntrackedDiscarded ==
    [][PollOfTracked
         => LET id == ret'.id
                ref == CheckDrain(id, iopub_socket, TrackedOnly(iopubQ), pending_executions)
            IN  /\ (ret'.kind = "Fault") = ref.raised
                /\ SelectSeq(iopubQ', LAMBDA m : ~Untracked(m)) = ref.queue
                /\ IF ret'.kind = "Terminal"
                   THEN /\ pending_executions' = Without(ref.pending, id)
                        /\ ret'.out = OutputParts(ref.pending[id])
                   ELSE /\ pending_executions' = ref.pending
                        /\ ret'.kind = "Running"
                              => ret'.out = OutputParts(ref.pending[id])]_vars

\* after the terminal poll of the first execution, a poll of the second
\* dropped a message and left the second entry as it was created
C28_Witness ==
    /\ ret.op = "check" /\ ret.kind = "Running" /\ ret.id = 2
    /\ ret.discarded = 1 /\ ret.out = <<>>
    /\ terminal_ids = {1} /\ Tracked = {2}
    /\ pending_executions[2] = NewExecution
    /\ iopubQ = <<>>

ReportsNotConnected == StatusOf(kernel_connection).kind = "NotConnected"

\* C29 (as claimed): disconnect_kernel leaves the client in a state in which
\* kernel_status() reports the not-connected value, and no step other than a
\* connect_to_kernel that succeeds ends that.
C29_DisconnectedUntilConnect ==
    /\ [](ret.op = "disconnect" => (ReportsNotConnected /\ ~connected_ok))
    /\ [][(ReportsNotConnected /\ ~connected_ok /\ ~connected_ok')
            => ReportsNotConnected']_vars

\* the socket a call sent on
SentOn(r) == IF r.sent = "shell" THEN shell_socket ELSE control_socket

\* C30 (as claimed): the open sockets were opened for the endpoint of the
\* stored descriptor, and an envelope a call has sent is signed with the key
\* of the endpoint of the socket it was sent on.
C30_DescriptorOfOpenChannels ==
    /\ \A ch \in OpenChannelSet : SocketOf(Globals, ch).ep = kernel_connection.ep
    /\ (ret.sent # "none" /\ SentOn(ret).open)
          => ret.envelope[3].key = SentOn(ret).ep

\* C31: on every step, an entry that is tracked before and after it holds its
\* earlier results, streams and errors as a prefix of the later ones, and a done
\* flag that was True is still True.
C31_EntryMonotone ==
    [][\A id \in Tracked \cap DOMAIN pending_executions' :
          Extends(pending_executions'[id], pending_executions[id])]_vars

\* the first entry collected two stream texts, one after the other, and is
\* still tracked with both after a poll of the second
C31_Witness ==
    /\ Tracked = {1, 2}
    /\ Len(pending_executions[1].streams) = 2
    /\ ret.op = "check" /\ ret.id = 2 /\ ret.kind = "Running"

\* C32: a connect_to_kernel that returns the file-not-found outcome leaves the
\* descriptor, the context, the three sockets and pending_executions as they
\* were, and with them what is queued on the iopub socket: a session that was
\* connected before the call is connected after it.
C32_NotFoundChangesNothing ==
    [][(/\ pc = "ready" /\ delivered' = delivered
        /\ ret'.op = "connect" /\ ret'.kind = "FileNotFound")
         => /\ UNCHANGED <<kernel_connection, context, shell_socket, iopub_socket,
                           control_socket, pending_executions, iopubQ, leaked>>
            /\ SessionConnected => SessionConnected'
            /\ StatusOf(kernel_connection') = StatusOf(kernel_connection)]_vars

\* a connect found no file on a connected client that tracks an execution
\* with output, and has a message waiting on its iopub socket
C32_Witness ==
    /\ ret.op = "connect" /\ ret.kind = "FileNotFound"
    /\ SessionConnected /\ TruthyConnection(kernel_connection)
    /\ 1 \in Tracked /\ pending_executions[1].streams # <<>>
    /\ iopubQ # <<>>

====
